---- MODULE Spec2Model ----
(***************************************************************************)
(* Model of the streaming message orchestrator                             *)
(*   src/src/core/application/claude/sendMessageStream.ts                  *)
(* and of the permission schemas of src/unnamed/part_001.                  *)
(*                                                                         *)
(* One invocation of sendMessageStream is a single cooperative flow that   *)
(* suspends at every await.  pc is the await the flow is suspended at;     *)
(* each action runs the code from one await to the next one (or to the     *)
(* return).  Optional values (undefined / null) are sequences of length    *)
(* 0 or 1; strings that a regular expression inspects are sequences of     *)
(* one-character strings.                                                  *)
(***************************************************************************)
EXTENDS Integers, Sequences, FiniteSets, TLC

VARIABLES
  pc,          \* the await the current run is suspended at, "idle" or "done"
  runs,        \* number of runs started so far
  input,       \* the input of the current run
  session,     \* the local variable session (None is null)
  messages,    \* the local variable messages
  store,       \* the SessionStore: id -> optional session record
  findCalls,   \* arguments of the findById calls issued in this run
  agentCalls,  \* arguments of the claudeService calls issued in this run
  upsertCalls, \* arguments of the upsert calls issued in this run
  trace,       \* collaborator calls of this run in issue order, with outcome
  logs,        \* console.error calls of this run
  result,      \* the value returned by the run
  prev,        \* history: the previous run, when it succeeded on a session
  candidate,   \* the raw value handed to a schema of part_001
  accepted,    \* the outcome of parsing candidate: "none", "yes" or "no"
  phase,       \* state of the permission authorization state machine
  auth,        \* the AuthorizationState of the stream
  allowList,   \* the allow-list the stream runs with
  rejected,    \* permission signals rejected as protocol violations
  events,      \* number of events the state machine has handled
  lastEvent    \* the event handled last

runVars == <<pc, runs, input, session, messages, store,
             findCalls, agentCalls, upsertCalls, trace, logs, result, prev>>

schemaVars == <<candidate, accepted>>

authVars == <<phase, auth, allowList, rejected, events, lastEvent>>

vars == <<pc, runs, input, session, messages, store,
          findCalls, agentCalls, upsertCalls, trace, logs, result, prev,
          candidate, accepted,
          phase, auth, allowList, rejected, events, lastEvent>>

-----------------------------------------------------------------------------
(* Bounds *)

MaxRuns == 2
MaxTools == 1
MaxMsgs == 2
MaxToolLen == 4
MaxGrants == 2
MaxEvents == 4

-----------------------------------------------------------------------------
(* Optional values *)

None == <<>>
Some(v) == <<v>>
IsSome(o) == o # <<>>
Val(o) == o[1]

(* JavaScript truthiness of an optional string: defined and not "" *)
Truthy(o) == IsSome(o) /\ Val(o) # ""

SeqsUpTo(S, n) == UNION {[1..k -> S] : k \in 0..n}

-----------------------------------------------------------------------------
(* Regular expression of allowedToolSchema:                                *)
(*   /^[A-Za-z_][A-Za-z0-9_]*\(.+\)$/                                      *)

Letters ==
  {"a","b","c","d","e","f","g","h","i","j","k","l","m",
   "n","o","p","q","r","s","t","u","v","w","x","y","z",
   "A","B","C","D","E","F","G","H","I","J","K","L","M",
   "N","O","P","Q","R","S","T","U","V","W","X","Y","Z"}
Digits == {"0","1","2","3","4","5","6","7","8","9"}
HeadChars == Letters \cup {"_"}
WordChars == Letters \cup Digits \cup {"_"}
(* "." matches any character except a line terminator *)
LineTerminators == {"\n", "\r"}

allowedToolSchemaBroken(s) ==
  /\ Len(s) >= 3
  /\ s[1] \in HeadChars
  /\ s[Len(s)] = ")"
  /\ \E k \in 2..(Len(s) - 1) :
        /\ s[k] = "("
        /\ \A i \in 2..(k - 1) : s[i] \in WordChars
        /\ \A i \in (k + 1)..(Len(s) - 1) : s[i] \notin LineTerminators

allowedToolSchema(s) ==
  /\ Len(s) >= 4
  /\ s[1] \in HeadChars
  /\ s[Len(s)] = ")"
  /\ \E k \in 2..(Len(s) - 2) :
        /\ s[k] = "("
        /\ \A i \in 2..(k - 1) : s[i] \in WordChars
        /\ \A i \in (k + 1)..(Len(s) - 1) : s[i] \notin LineTerminators

-----------------------------------------------------------------------------
(* Input space *)

GoodTool == <<"B", "(", "l", "s", ")">>
BadTool == <<"r", "m", " ", "-", "r">>
SampleTools == {GoodTool, BadTool}

Messages == {"", "hi"}
InputSessionIds == {None, Some(""), Some("s1"), Some("s2")}
InputCwds == {None, Some(""), Some("/tmp/x")}
InputTools == {None} \cup {Some(t) : t \in SeqsUpTo(SampleTools, MaxTools)}
InputBypass == {None, Some(TRUE)}

Inputs ==
  [message : Messages, sessionId : InputSessionIds, cwd : InputCwds,
   allowedTools : InputTools, bypassPermissions : InputBypass]

NoInput ==
  [message |-> "", sessionId |-> None, cwd |-> None,
   allowedTools |-> None, bypassPermissions |-> None]

(* sendMessageStreamInputSchema: the per-field checks of z.object *)
FieldsValid(in) ==
  /\ in.message # ""
  /\ IsSome(in.sessionId) => Val(in.sessionId) # ""
  /\ IsSome(in.cwd) => Val(in.cwd) # ""

RefineNoCwd(data) == TRUE

(* sendMessageStreamInputSchema: the .refine predicate *)
Refine(data) == ~(~Truthy(data.sessionId) /\ ~Truthy(data.cwd))

sendMessageStreamInputSchema(in) == FieldsValid(in) /\ Refine(in)

(* validate(schema, input) of @/lib/validation: ok(parsed) or err(issue) *)
validate(in) == sendMessageStreamInputSchema(in)

(* sessionIdSchema.parse of @/core/domain/session/types: throws unless the *)
(* value is a non-empty string                                             *)
sessionIdSchemaParses(o) == IsSome(o) /\ Val(o) # ""

-----------------------------------------------------------------------------
(* Sessions and the SessionStore *)

StoreIds == {"s1", "s2", "abc", "xyz"}

SessionRec(id, projectId, name, cwd) ==
  [id |-> id, projectId |-> projectId, name |-> name, cwd |-> cwd]

InitStore ==
  [i \in StoreIds |->
     IF i = "s1" THEN Some(SessionRec("s1", Some("p1"), Some("n1"), "/work"))
     ELSE None]

(* sessionRepository.findById: the stored record, or null *)
findById(st, id) == st[id]

(* sessionRepository.upsert: writes the record and returns it *)
upsert(st, rec) == [st EXCEPT ![rec.id] = Some(rec)]

StoreOutcomes == {"ok", "err", "throw"}

-----------------------------------------------------------------------------
(* The agent *)

AgentMessages ==
  { [type |-> "assistant", session_id |-> "xyz"],
    [type |-> "result", session_id |-> "abc"],
    [type |-> "result", session_id |-> "xyz"] }

AgentOutcomes ==
  {[kind |-> "ok", value |-> m] : m \in SeqsUpTo(AgentMessages, MaxMsgs)}
    \cup {[kind |-> "err", value |-> <<>>], [kind |-> "throw", value |-> <<>>]}

(* isResultMessage of @/core/domain/claude/types *)
isResultMessage(m) == m.type = "result"

(* lines 123-127, map + filter: the session_id of every result message of *)
(* msgs[i..], in order                                                     *)
RECURSIVE ResultIdsFrom(_, _)
ResultIdsFrom(msgs, i) ==
  IF i > Len(msgs) THEN <<>>
  ELSE IF isResultMessage(msgs[i])
       THEN <<msgs[i].session_id>> \o ResultIdsFrom(msgs, i + 1)
       ELSE ResultIdsFrom(msgs, i + 1)

ResultSessionIds(msgs) == ResultIdsFrom(msgs, 1)

ExtractSessionIdLast(msgs) ==
  IF ResultSessionIds(msgs) = <<>> THEN None
  ELSE Some(ResultSessionIds(msgs)[Len(ResultSessionIds(msgs))])

(* lines 123-127: element [0] of the filtered array, undefined when empty *)
ExtractSessionId(msgs) ==
  IF ResultSessionIds(msgs) = <<>> THEN None
  ELSE Some(ResultSessionIds(msgs)[1])

EffectiveCwdSessionFirst(params, sess) ==
  IF IsSome(sess) THEN Some(Val(sess).cwd) ELSE params.cwd

(* line 93: params.cwd || (session ? session.cwd : undefined) *)
EffectiveCwd(params, sess) ==
  IF Truthy(params.cwd) THEN params.cwd
  ELSE IF IsSome(sess) THEN Some(Val(sess).cwd) ELSE None

(* lines 90-96: the first argument of claudeService.sendMessageStream *)
AgentParams(params, sess) ==
  [message |-> params.message,
   sessionId |-> IF IsSome(sess) /\ Val(sess).id # ""
                 THEN Some(Val(sess).id) ELSE None,
   cwd |-> EffectiveCwd(params, sess),
   allowedTools |-> params.allowedTools,
   bypassPermissions |-> params.bypassPermissions]

-----------------------------------------------------------------------------
(* Return values and branch conditions of sendMessageStream *)

NoResult ==
  [status |-> "none", error |-> "", cause |-> "",
   session |-> None, messages |-> <<>>]

(* err(new ApplicationError(msg, cause)) *)
Err(msg, cause) ==
  [status |-> "err", error |-> msg, cause |-> cause,
   session |-> None, messages |-> <<>>]

(* ok({session, messages}) *)
Ok(sess, msgs) ==
  [status |-> "ok", error |-> "", cause |-> "",
   session |-> sess, messages |-> msgs]

Call(op) == [op |-> op, kind |-> "pending"]

(* the last call of the trace has returned with outcome kind *)
Returned(tr, kind) == [tr EXCEPT ![Len(tr)].kind = kind]

NeverNotFound(found) == FALSE

(* line 74: !sessionResult.value *)
SessionNotFound(found) == ~IsSome(found)

ClaudeNeverFailed(kind) == FALSE

(* line 99: claudeResult.isErr() *)
ClaudeFailed(kind) == kind = "err"

AgentErrorNextRetry == "agent"

(* lines 99-109: an agent failure ends the run; the call is not repeated *)
AgentErrorNext == "done"

CreateNeverFailed(kind) == FALSE

(* line 135: createSessionResult.isErr() *)
CreateFailed(kind) == kind = "err"

ShouldRefreshExistingOnly(params) == Truthy(params.sessionId)

(* lines 150-151: the refresh upsert is issued on both paths *)
ShouldRefresh(params) == TRUE

SessionAfterRefreshAlways(sess, kind, value) == value

(* lines 157-161: a failed refresh keeps the session held before it *)
SessionAfterRefresh(sess, kind, value) ==
  IF kind = "err" THEN sess ELSE value

-----------------------------------------------------------------------------
(* Schemas of part_001 and the permission state machine: initial values *)

NoCandidate ==
  [kind |-> "none", tool |-> <<>>,
   directive |-> [message |-> "", allowedTools |-> None],
   state |-> [isWaitingForPermission |-> FALSE, pendingRequest |-> None]]

SchemaIdle == candidate = NoCandidate /\ accepted = "none"

NoEvent == [type |-> "none", request |-> None, directive |-> None]

(* permissionRequestSchema: every field is required *)
permissionRequestSchema(r) ==
  /\ IsSome(r.toolName)
  /\ IsSome(r.toolCommand)
  /\ IsSome(r.originalToolUse)

(* continueMessageSchema: z.literal("continue") and an array of            *)
(* allowedToolSchema                                                       *)
continueMessageSchema(d) ==
  /\ d.message = "continue"
  /\ IsSome(d.allowedTools)
  /\ \A i \in 1..Len(Val(d.allowedTools)) :
        allowedToolSchema(Val(d.allowedTools)[i])

(* authorizationStateSchema: a boolean and a nullable permission request *)
authorizationStateSchema(a) ==
  /\ a.isWaitingForPermission \in BOOLEAN
  /\ IsSome(a.pendingRequest) => permissionRequestSchema(Val(a.pendingRequest))

ToolAlphabet == {"a", "1", "(", ")", "\n"}
ToolCandidates == SeqsUpTo(ToolAlphabet, MaxToolLen)

NewlineTool == <<"B", "(", "\n", ")">>
EmptyBodyTool == <<"B", "(", ")">>
SampleGrants == {GoodTool, BadTool, NewlineTool, EmptyBodyTool}

DirectiveCandidates ==
  [message : {"continue", "Continue", ""},
   allowedTools :
     {None} \cup {Some(t) : t \in SeqsUpTo(SampleGrants, MaxGrants)}]

ToolUse == [id |-> "t1", name |-> "Bash", input |-> "{}"]

RequestCandidates ==
  [toolName : {None, Some("Bash")}, toolCommand : {None, Some("ls")},
   originalToolUse : {None, Some(ToolUse)}]

StateCandidates ==
  [isWaitingForPermission : BOOLEAN,
   pendingRequest : {None} \cup {Some(r) : r \in RequestCandidates}]

Candidates ==
  {[NoCandidate EXCEPT !.kind = "tool", !.tool = t] : t \in ToolCandidates}
    \cup {[NoCandidate EXCEPT !.kind = "directive", !.directive = d] :
            d \in DirectiveCandidates}
    \cup {[NoCandidate EXCEPT !.kind = "state", !.state = a] :
            a \in StateCandidates}

Verdict(ok) == IF ok THEN "yes" ELSE "no"

(* allowedToolSchema.safeParse(candidate) *)
ParseAllowedTool ==
  /\ candidate.kind = "tool" /\ accepted = "none"
  /\ accepted' = Verdict(allowedToolSchema(candidate.tool))
  /\ UNCHANGED <<candidate, runVars, authVars>>

(* continueMessageSchema.safeParse(candidate) *)
ParseContinueMessage ==
  /\ candidate.kind = "directive" /\ accepted = "none"
  /\ accepted' = Verdict(continueMessageSchema(candidate.directive))
  /\ UNCHANGED <<candidate, runVars, authVars>>

(* authorizationStateSchema.safeParse(candidate) *)
ParseAuthorizationState ==
  /\ candidate.kind = "state" /\ accepted = "none"
  /\ accepted' = Verdict(authorizationStateSchema(candidate.state))
  /\ UNCHANGED <<candidate, runVars, authVars>>

AuthInit ==
  /\ phase = "Idle"
  /\ auth = [isWaitingForPermission |-> FALSE, pendingRequest |-> None]
  /\ allowList = <<>>
  /\ rejected = <<>>
  /\ events = 0
  /\ lastEvent = NoEvent

-----------------------------------------------------------------------------
(* The run *)

RunInit ==
  /\ pc = "idle"
  /\ runs = 0
  /\ input = NoInput
  /\ session = None
  /\ messages = <<>>
  /\ store = InitStore
  /\ findCalls = <<>>
  /\ agentCalls = <<>>
  /\ upsertCalls = <<>>
  /\ trace = <<>>
  /\ logs = <<>>
  /\ result = NoResult
  /\ prev = None

Init == RunInit /\ SchemaIdle /\ AuthInit

(* return err(error) after console.error(logmsg, error) *)
Fail(logmsg, msg, cause) ==
  /\ logs' = Append(logs, logmsg)
  /\ result' = Err(msg, cause)
  /\ pc' = "done"

(* the fault leaves the function: no value is returned *)
CatchRethrow(cause) ==
  /\ logs' = logs
  /\ result' = [status |-> "thrown", error |-> "", cause |-> cause,
                session |-> None, messages |-> <<>>]
  /\ pc' = "done"

(* lines 167-174: the catch block *)
Catch(cause) ==
  Fail("Unexpected error occurred", "Unexpected error in sendMessageStream",
       cause)

(* lines 89-98: the agent call is issued *)
IssueAgent(params, sess) ==
  /\ agentCalls' = Append(agentCalls, AgentParams(params, sess))
  /\ pc' = "agent"

(* the refresh carries the identifier the agent reported *)
IssueRefreshAgentId(sess) ==
  /\ upsertCalls' =
       Append(upsertCalls,
              SessionRec(IF IsSome(ExtractSessionId(messages'))
                         THEN Val(ExtractSessionId(messages'))
                         ELSE Val(sess).id,
                         Val(sess).projectId, Val(sess).name, Val(sess).cwd))
  /\ pc' = "refresh"

(* the refresh carries the cwd the agent ran in *)
IssueRefreshCallerCwd(sess) ==
  /\ upsertCalls' =
       Append(upsertCalls,
              SessionRec(Val(sess).id, Val(sess).projectId, Val(sess).name,
                         Val(EffectiveCwd(input, sess))))
  /\ pc' = "refresh"

(* lines 151-156: the refresh upsert is issued *)
IssueRefresh(sess) ==
  /\ upsertCalls' =
       Append(upsertCalls,
              SessionRec(Val(sess).id, Val(sess).projectId,
                         Val(sess).name, Val(sess).cwd))
  /\ pc' = "refresh"

(* history: what a finished run leaves for the next one to be compared to *)
PrevOf(in, res) ==
  IF res.status = "ok" /\ IsSome(in.sessionId)
  THEN Some([sessionId |-> Val(in.sessionId), message |-> in.message,
             returnedId |-> Val(res.session).id])
  ELSE None

(* lines 44-59: validation, then the lookup or the agent call is issued *)
Start(in) ==
  /\ pc \in {"idle", "done"}
  /\ runs < MaxRuns
  /\ runs' = runs + 1
  /\ input' = in
  /\ session' = None
  /\ messages' = <<>>
  /\ upsertCalls' = <<>>
  /\ prev' = PrevOf(input, result)
  /\ UNCHANGED <<store, schemaVars, authVars>>
  /\ IF ~validate(in)
     THEN /\ logs' = <<"Input validation failed">>
          /\ result' = Err("Invalid input", "validation")
          /\ pc' = "done"
          /\ findCalls' = <<>>
          /\ agentCalls' = <<>>
          /\ trace' = <<>>
     ELSE IF Truthy(in.sessionId)
     THEN IF sessionIdSchemaParses(in.sessionId)
          THEN /\ findCalls' = <<Val(in.sessionId)>>
               /\ trace' = <<Call("findById")>>
               /\ pc' = "findById"
               /\ agentCalls' = <<>>
               /\ logs' = <<>>
               /\ result' = NoResult
          ELSE /\ logs' = <<"Unexpected error occurred">>
               /\ result' = Err("Unexpected error in sendMessageStream", "zod")
               /\ pc' = "done"
               /\ findCalls' = <<>>
               /\ agentCalls' = <<>>
               /\ trace' = <<>>
     ELSE /\ agentCalls' = <<AgentParams(in, None)>>
          /\ trace' = <<Call("agent")>>
          /\ pc' = "agent"
          /\ findCalls' = <<>>
          /\ logs' = <<>>
          /\ result' = NoResult

(* lines 59-98: findById returns *)
FindByIdReturns(kind) ==
  /\ pc = "findById"
  /\ UNCHANGED <<runs, input, messages, store, findCalls, upsertCalls>>
  /\ UNCHANGED <<prev, schemaVars, authVars>>
  /\ CASE kind = "throw" ->
            /\ Catch("findByIdThrown")
            /\ trace' = Returned(trace, "throw")
            /\ UNCHANGED <<session, agentCalls>>
       [] kind = "err" ->
            /\ Fail("Session retrieval failed", "Failed to get session",
                    "findByIdError")
            /\ trace' = Returned(trace, "err")
            /\ UNCHANGED <<session, agentCalls>>
       [] OTHER ->
            LET found == findById(store, findCalls[Len(findCalls)])
                returned == IF IsSome(found) THEN "ok" ELSE "none"
            IN
            IF SessionNotFound(found)
            THEN /\ Fail("Session not found", "Session not found", "")
                 /\ trace' = Returned(trace, returned)
                 /\ UNCHANGED <<session, agentCalls>>
            ELSE /\ session' = found
                 /\ IssueAgent(input, found)
                 /\ trace' = Append(Returned(trace, returned), Call("agent"))
                 /\ UNCHANGED <<logs, result>>

(* lines 99-156: the agent call returns *)
AgentReturns(out) ==
  /\ pc = "agent"
  /\ UNCHANGED <<runs, input, session, store, findCalls>>
  /\ UNCHANGED <<prev, schemaVars, authVars>>
  /\ CASE out.kind = "throw" ->
            /\ Catch("agentThrown")
            /\ trace' = Returned(trace, "throw")
            /\ UNCHANGED <<messages, agentCalls, upsertCalls>>
       [] out.kind # "throw" /\ ClaudeFailed(out.kind) ->
            /\ UNCHANGED <<messages, upsertCalls>>
            /\ IF AgentErrorNext = "done"
               THEN /\ Fail("Claude API streaming call failed",
                            "Failed to send message to Claude", "agentError")
                    /\ trace' = Returned(trace, "err")
                    /\ UNCHANGED agentCalls
               ELSE /\ IssueAgent(input, session)
                    /\ trace' = Append(Returned(trace, "err"), Call("agent"))
                    /\ UNCHANGED <<logs, result>>
       [] OTHER ->
            /\ messages' = out.value
            /\ UNCHANGED agentCalls
            /\ IF ~Truthy(input.sessionId)
               THEN IF ~Truthy(input.cwd)
                    THEN /\ Fail("Missing cwd for new session",
                                 "cwd is required when creating a new session",
                                 "")
                         /\ trace' = Returned(trace, out.kind)
                         /\ UNCHANGED upsertCalls
                    ELSE LET sessionId == ExtractSessionId(out.value) IN
                         IF ~sessionIdSchemaParses(sessionId)
                         THEN /\ Catch("zod")
                              /\ trace' = Returned(trace, out.kind)
                              /\ UNCHANGED upsertCalls
                         ELSE /\ upsertCalls' =
                                   Append(upsertCalls,
                                          SessionRec(Val(sessionId), None, None,
                                                     Val(input.cwd)))
                              /\ trace' = Append(Returned(trace, out.kind),
                                                 Call("upsert"))
                              /\ pc' = "create"
                              /\ UNCHANGED <<logs, result>>
               ELSE IF ~IsSome(session)
                    THEN /\ result' =
                              Err("Session was not created or found", "")
                         /\ pc' = "done"
                         /\ trace' = Returned(trace, out.kind)
                         /\ UNCHANGED <<logs, upsertCalls>>
                    ELSE IF ShouldRefresh(input)
                    THEN /\ IssueRefresh(session)
                         /\ trace' = Append(Returned(trace, out.kind),
                                            Call("upsert"))
                         /\ UNCHANGED <<logs, result>>
                    ELSE /\ result' = Ok(session, out.value)
                         /\ pc' = "done"
                         /\ trace' = Returned(trace, out.kind)
                         /\ UNCHANGED <<logs, upsertCalls>>

(* lines 129-156: the create upsert returns *)
CreateReturns(kind) ==
  /\ pc = "create"
  /\ UNCHANGED <<runs, input, messages, findCalls, agentCalls>>
  /\ UNCHANGED <<prev, schemaVars, authVars>>
  /\ LET rec == upsertCalls[Len(upsertCalls)]
         value == IF kind = "ok" THEN Some(rec) ELSE None
     IN
     CASE kind = "throw" ->
            /\ Catch("upsertThrown")
            /\ trace' = Returned(trace, "throw")
            /\ UNCHANGED <<session, store, upsertCalls>>
       [] kind # "throw" /\ CreateFailed(kind) ->
            /\ Fail("Session creation failed", "Failed to create session",
                    "upsertError")
            /\ trace' = Returned(trace, "err")
            /\ UNCHANGED <<session, store, upsertCalls>>
       [] OTHER ->
            /\ store' = IF kind = "ok" THEN upsert(store, rec) ELSE store
            /\ session' = value
            /\ IF ~IsSome(value)
               THEN /\ result' =
                         Err("Session was not created or found", "")
                    /\ pc' = "done"
                    /\ trace' = Returned(trace, kind)
                    /\ UNCHANGED <<logs, upsertCalls>>
               ELSE IF ShouldRefresh(input)
               THEN /\ IssueRefresh(value)
                    /\ trace' = Append(Returned(trace, kind), Call("upsert"))
                    /\ UNCHANGED <<logs, result>>
               ELSE /\ result' = Ok(value, messages)
                    /\ pc' = "done"
                    /\ trace' = Returned(trace, kind)
                    /\ UNCHANGED <<logs, upsertCalls>>

(* lines 151-166: the refresh upsert returns *)
RefreshReturns(kind) ==
  /\ pc = "refresh"
  /\ UNCHANGED <<runs, input, messages, findCalls, agentCalls, upsertCalls>>
  /\ UNCHANGED <<prev, schemaVars, authVars>>
  /\ LET rec == upsertCalls[Len(upsertCalls)]
         value == IF kind = "ok" THEN Some(rec) ELSE None
     IN
     IF kind = "throw"
     THEN /\ Catch("upsertThrown")
          /\ trace' = Returned(trace, "throw")
          /\ UNCHANGED <<session, store>>
     ELSE /\ store' = IF kind = "ok" THEN upsert(store, rec) ELSE store
          /\ session' = SessionAfterRefresh(session, kind, value)
          /\ result' = Ok(session', messages)
          /\ pc' = "done"
          /\ trace' = Returned(trace, kind)
          /\ UNCHANGED logs

Next ==
  \/ \E in \in Inputs : Start(in)
  \/ \E kind \in StoreOutcomes : FindByIdReturns(kind)
  \/ \E out \in AgentOutcomes : AgentReturns(out)
  \/ \E kind \in StoreOutcomes : CreateReturns(kind)
  \/ \E kind \in StoreOutcomes : RefreshReturns(kind)

Spec == Init /\ [][Next]_vars

-----------------------------------------------------------------------------
(* The permission authorization state machine of one stream *)

PermissionRequests ==
  { [toolName |-> Some("Bash"), toolCommand |-> Some("ls"),
     originalToolUse |-> Some(ToolUse)],
    [toolName |-> Some("Write"), toolCommand |-> Some("a.txt"),
     originalToolUse |-> Some([id |-> "t2", name |-> "Write", input |-> "{}"])] }

NotWaiting == [isWaitingForPermission |-> FALSE, pendingRequest |-> None]

Event(type, request, directive) ==
  [type |-> type, request |-> request, directive |-> directive]

AuthAfterSignalOverwrite(a, req) ==
  [isWaitingForPermission |-> TRUE, pendingRequest |-> Some(req)]

(* a signal populates pendingRequest; while waiting it is rejected *)
AuthAfterSignal(a, req) ==
  IF a.isWaitingForPermission THEN a
  ELSE [isWaitingForPermission |-> TRUE, pendingRequest |-> Some(req)]

(* a relayed chunk or message signals a tool-permission need *)
PermissionSignal(req) ==
  /\ events < MaxEvents
  /\ phase \in {"Idle", "WaitingForPermission"}
  /\ events' = events + 1
  /\ lastEvent' = Event("signal", Some(req), None)
  /\ auth' = AuthAfterSignal(auth, req)
  /\ phase' = "WaitingForPermission"
  /\ rejected' = IF phase = "WaitingForPermission"
                 THEN Append(rejected, req) ELSE rejected
  /\ UNCHANGED <<allowList, runVars, schemaVars>>

(* the caller supplies a resumption payload *)
Continue(d) ==
  /\ events < MaxEvents
  /\ phase = "WaitingForPermission"
  /\ events' = events + 1
  /\ lastEvent' = Event("continue", None, Some(d))
  /\ IF continueMessageSchema(d)
     THEN /\ phase' = "Granted"
          /\ auth' = NotWaiting
          /\ allowList' = allowList \o Val(d.allowedTools)
     ELSE UNCHANGED <<phase, auth, allowList>>
  /\ UNCHANGED <<rejected, runVars, schemaVars>>

(* the caller declines, or the stream ends without a directive *)
Decline ==
  /\ events < MaxEvents
  /\ phase = "WaitingForPermission"
  /\ events' = events + 1
  /\ lastEvent' = Event("decline", None, None)
  /\ phase' = "Denied"
  /\ auth' = NotWaiting
  /\ UNCHANGED <<allowList, rejected, runVars, schemaVars>>

(* the resumed stream continues *)
StreamContinues ==
  /\ events < MaxEvents
  /\ phase = "Granted"
  /\ events' = events + 1
  /\ lastEvent' = Event("resume", None, None)
  /\ phase' = "Idle"
  /\ UNCHANGED <<auth, allowList, rejected, runVars, schemaVars>>

AuthNext ==
  \/ \E req \in PermissionRequests : PermissionSignal(req)
  \/ \E d \in DirectiveCandidates : Continue(d)
  \/ Decline
  \/ StreamContinues

AuthSpec == Init /\ [][AuthNext]_vars

(* the schemas of part_001, each applied to every candidate value *)
SchemaInit ==
  /\ RunInit /\ AuthInit
  /\ candidate \in Candidates
  /\ accepted = "none"

SchemaNext ==
  \/ ParseAllowedTool
  \/ ParseContinueMessage
  \/ ParseAuthorizationState

SchemaSpec == SchemaInit /\ [][SchemaNext]_vars

TypeOK ==
  /\ pc \in {"idle", "findById", "agent", "create", "refresh", "done"}
  /\ runs \in 0..MaxRuns
  /\ input \in Inputs

-----------------------------------------------------------------------------
(* Vocabulary of the properties *)

NoCalls == findCalls = <<>> /\ agentCalls = <<>> /\ upsertCalls = <<>>

NewSessionPath == runs > 0 /\ validate(input) /\ ~IsSome(input.sessionId)

ExistingSessionPath == runs > 0 /\ validate(input) /\ IsSome(input.sessionId)

(* the outcomes of the calls of this run to the collaborator operation op *)
KindsOf(op) == {trace[i].kind : i \in {j \in 1..Len(trace) : trace[j].op = op}}

AgentKinds == KindsOf("agent")

FindKinds == KindsOf("findById")

(* outcomes of the upsert calls of this run, in issue order *)
RECURSIVE UpsertKindsFrom(_)
UpsertKindsFrom(i) ==
  IF i > Len(trace) THEN <<>>
  ELSE IF trace[i].op = "upsert"
       THEN <<trace[i].kind>> \o UpsertKindsFrom(i + 1)
       ELSE UpsertKindsFrom(i + 1)

UpsertKinds == UpsertKindsFrom(1)

(* the number of the refresh upsert among the upserts of a run *)
RefreshIndex == IF IsSome(input.sessionId) THEN 1 ELSE 2

HasInvalidGrant(in) ==
  /\ IsSome(in.allowedTools)
  /\ \E i \in 1..Len(Val(in.allowedTools)) :
        ~allowedToolSchema(Val(in.allowedTools)[i])

(* msgs[i] is the first result message of msgs *)
FirstResultAt(msgs, i) ==
  /\ i \in 1..Len(msgs)
  /\ msgs[i].type = "result"
  /\ \A j \in 1..(i - 1) : msgs[j].type # "result"

HasResult(msgs) == \E i \in 1..Len(msgs) : msgs[i].type = "result"

-----------------------------------------------------------------------------
(* C1: an input with neither sessionId nor cwd ends the run at once with   *)
(* the validation error, and no findById, upsert or agent call is issued.  *)
C1_NoIdNoCwdRejected ==
  (runs > 0 /\ ~IsSome(input.sessionId) /\ ~IsSome(input.cwd)) =>
     /\ pc = "done"
     /\ result = Err("Invalid input", "validation")
     /\ NoCalls

C1_Witness ==
  /\ pc = "done"
  /\ input.message = "hi"
  /\ ~IsSome(input.sessionId) /\ ~IsSome(input.cwd)
  /\ result.error = "Invalid input"
  /\ NoCalls

(* C2: an input whose allowedTools holds an entry that does not match the  *)
(* ToolGrant pattern is rejected with the validation error before any      *)
(* store or agent call, and the entry never reaches the agent.             *)
C2_InvalidGrantRejected ==
  (runs > 0 /\ HasInvalidGrant(input)) =>
     /\ pc = "done"
     /\ result = Err("Invalid input", "validation")
     /\ NoCalls

(* C3: when findById fails or returns no record the run ends with          *)
(* "Failed to get session" (wrapping the store's cause) or "Session not    *)
(* found", and neither the agent call nor an upsert is issued.             *)
C3_LookupFailureStops ==
  (FindKinds \cap {"err", "none"} # {}) =>
     /\ pc = "done"
     /\ ("err" \in FindKinds) =>
           result = Err("Failed to get session", "findByIdError")
     /\ ("none" \in FindKinds) => result = Err("Session not found", "")
     /\ agentCalls = <<>>
     /\ upsertCalls = <<>>

C3_Witness ==
  /\ pc = "done"
  /\ input.sessionId = Some("s2")
  /\ FindKinds = {"none"}
  /\ result.error = "Session not found"
  /\ agentCalls = <<>>

(* C4: when the agent call fails the run ends with an error that wraps the *)
(* cause, the agent has been called exactly once and no upsert is issued.  *)
C4_AgentFailureStops ==
  (AgentKinds \cap {"err", "throw"} # {}) =>
     /\ pc = "done"
     /\ result.status = "err"
     /\ result.cause # ""
     /\ ("err" \in AgentKinds) =>
           result = Err("Failed to send message to Claude", "agentError")
     /\ Len(agentCalls) = 1
     /\ upsertCalls = <<>>

C4_Witness ==
  /\ pc = "done"
  /\ ExistingSessionPath
  /\ AgentKinds = {"err"}
  /\ result.cause = "agentError"
  /\ Len(agentCalls) = 1
  /\ upsertCalls = <<>>

(* C5: on the new-session path the session is created by an upsert whose   *)
(* id is the session_id of the first result message, whose cwd is the      *)
(* input cwd and whose projectId and name are absent; when the agent call  *)
(* and the store calls succeed and a result message exists the run         *)
(* succeeds and returns that session with the agent's messages.            *)
C5_NewSessionCreated ==
  NewSessionPath =>
     /\ (upsertCalls # <<>>) =>
           /\ \E i \in 1..Len(messages) :
                 /\ FirstResultAt(messages, i)
                 /\ upsertCalls[1].id = messages[i].session_id
           /\ upsertCalls[1].cwd = Val(input.cwd)
           /\ upsertCalls[1].projectId = None
           /\ upsertCalls[1].name = None
     /\ (pc \in {"create", "refresh"}) => AgentKinds = {"ok"}
     /\ (pc # "agent" /\ AgentKinds = {"ok"} /\ HasResult(messages)) =>
           upsertCalls # <<>>
     /\ (pc = "done" /\ UpsertKinds \in {<<"ok", "ok">>, <<"ok", "err">>}) =>
           result = Ok(Some(upsertCalls[1]), messages)
     /\ (pc = "done" /\ result.status = "ok") =>
           /\ result.session = Some(upsertCalls[1])
           /\ store[upsertCalls[1].id] = Some(upsertCalls[1])

C5_Witness ==
  /\ pc = "done"
  /\ NewSessionPath
  /\ messages = << [type |-> "result", session_id |-> "abc"],
                   [type |-> "result", session_id |-> "xyz"] >>
  /\ result.status = "ok"
  /\ Val(result.session) = SessionRec("abc", None, None, "/tmp/x")
  /\ result.messages = messages

(* C6: on the new-session path, when the agent call succeeds without a     *)
(* result message, the run fails with an error of its own that is not the  *)
(* generic unexpected-fault error, and no upsert is issued.                *)
C6_MissingSessionIdError ==
  (pc = "done" /\ NewSessionPath /\ AgentKinds = {"ok"}
     /\ ~HasResult(messages)) =>
     /\ result.status = "err"
     /\ result.error # "Unexpected error in sendMessageStream"
     /\ upsertCalls = <<>>

(* C7: when the refresh upsert fails the run still returns success with    *)
(* the agent's messages and the session held before the refresh: the       *)
(* looked-up session or the created session.                               *)
C7_RefreshFailureSwallowed ==
  (Len(UpsertKinds) = RefreshIndex /\ UpsertKinds[RefreshIndex] = "err") =>
     /\ pc = "done"
     /\ result.status = "ok"
     /\ result.messages = messages
     /\ IsSome(result.session)
     /\ ExistingSessionPath =>
           result.session = findById(store, Val(input.sessionId))
     /\ NewSessionPath => result.session = Some(upsertCalls[1])

C7_Witness ==
  /\ pc = "done"
  /\ NewSessionPath
  /\ UpsertKinds = <<"ok", "err">>
  /\ result.status = "ok"
  /\ result.session = Some(upsertCalls[1])
  /\ messages # <<>>

(* C8: on the new-session path, when the create upsert fails the run ends  *)
(* with an error wrapping the cause and the refresh upsert is never        *)
(* issued: one store write was attempted.                                  *)
C8_CreateFailureStops ==
  (NewSessionPath /\ UpsertKinds # <<>> /\ UpsertKinds[1] \in {"err", "throw"}) =>
     /\ pc = "done"
     /\ result.status = "err"
     /\ result.cause # ""
     /\ (UpsertKinds[1] = "err") =>
           result = Err("Failed to create session", "upsertError")
     /\ Len(upsertCalls) = 1
     /\ findCalls = <<>>

C8_Witness ==
  /\ pc = "done"
  /\ NewSessionPath
  /\ UpsertKinds = <<"err">>
  /\ result = Err("Failed to create session", "upsertError")
  /\ Len(upsertCalls) = 1

(* C9: the cwd passed to the agent is the input's cwd when the input has   *)
(* one, and otherwise the cwd of the session found by findById.            *)
C9_EffectiveCwd ==
  \A i \in 1..Len(agentCalls) :
     /\ IsSome(input.cwd) => agentCalls[i].cwd = input.cwd
     /\ ~IsSome(input.cwd) =>
           /\ IsSome(findById(store, Val(input.sessionId)))
           /\ agentCalls[i].cwd =
                 Some(Val(findById(store, Val(input.sessionId))).cwd)

C9_Witness ==
  /\ agentCalls # <<>>
  /\ input.sessionId = Some("s1")
  /\ ~IsSome(input.cwd)
  /\ agentCalls[1].cwd = Some("/work")

(* C10: a run issues at most one findById, at most one agent call and at   *)
(* most two upserts, whatever the store and the agent answer.              *)
C10_CallBounds ==
  /\ Len(findCalls) <= 1
  /\ Len(agentCalls) <= 1
  /\ Len(upsertCalls) <= 2
  /\ Len(trace) = Len(findCalls) + Len(agentCalls) + Len(upsertCalls)

C10_Witness ==
  /\ pc = "done"
  /\ Len(agentCalls) = 1
  /\ Len(upsertCalls) = 2
  /\ UpsertKinds = <<"ok", "throw">>

(* the calls of this run that threw *)
Thrown == {i \in 1..Len(trace) : trace[i].kind = "throw"}

(* the fault thrown by the collaborator operation op *)
FaultOf(op) ==
  CASE op = "findById" -> "findByIdThrown"
    [] op = "agent" -> "agentThrown"
    [] op = "upsert" -> "upsertThrown"

(* C11: the run never throws past its boundary: when a store call, the     *)
(* agent call (with the sink it drives) or the parse of the session id     *)
(* throws, the run ends and returns the error value "Unexpected error in   *)
(* sendMessageStream" wrapping the fault.                                  *)
C11_NeverThrows ==
  /\ result.status \in {"none", "ok", "err"}
  /\ (pc # "done") => result.status = "none"
  /\ (pc = "done") => result.status # "none"
  /\ \A i \in Thrown :
        /\ pc = "done"
        /\ i = Len(trace)
        /\ result = Err("Unexpected error in sendMessageStream",
                        FaultOf(trace[i].op))
  /\ (pc = "done" /\ NewSessionPath /\ AgentKinds = {"ok"}
        /\ ~HasResult(messages)) =>
        result = Err("Unexpected error in sendMessageStream", "zod")

C11_Witness ==
  /\ pc = "done"
  /\ Len(trace) = 3
  /\ trace[3] = [op |-> "upsert", kind |-> "throw"]
  /\ result = Err("Unexpected error in sendMessageStream", "upsertThrown")

(* C12: for two successive runs with the same existing sessionId and the   *)
(* same message, each run that succeeds returns a session whose id is that *)
(* sessionId, and the agent's resume id and every upsert of both runs      *)
(* carry that id, whatever session_id the result messages contain.         *)
C12_SessionIdStable ==
  /\ IsSome(prev) => Val(prev).returnedId = Val(prev).sessionId
  /\ ExistingSessionPath =>
        /\ \A i \in 1..Len(agentCalls) :
              agentCalls[i].sessionId = input.sessionId
        /\ \A i \in 1..Len(upsertCalls) :
              upsertCalls[i].id = Val(input.sessionId)
        /\ (pc = "done" /\ result.status = "ok") =>
              /\ IsSome(result.session)
              /\ Val(result.session).id = Val(input.sessionId)
              /\ IsSome(store[Val(input.sessionId)])
              /\ Val(store[Val(input.sessionId)]).id = Val(input.sessionId)

C12_Witness ==
  /\ runs = 2
  /\ pc = "done"
  /\ prev = Some([sessionId |-> "s1", message |-> "hi", returnedId |-> "s1"])
  /\ input.sessionId = Some("s1")
  /\ input.message = "hi"
  /\ result.status = "ok"
  /\ Val(result.session).id = "s1"
  /\ \E i \in 1..Len(messages) :
        messages[i] = [type |-> "result", session_id |-> "abc"]

-----------------------------------------------------------------------------
(* C13: every AuthorizationState value that authorizationStateSchema       *)
(* accepts has a pendingRequest if and only if isWaitingForPermission is   *)
(* true.                                                                   *)
C13_PendingIffWaiting ==
  (candidate.kind = "state" /\ accepted = "yes") =>
     (IsSome(candidate.state.pendingRequest)
        <=> candidate.state.isWaitingForPermission)

(* the ToolGrant pattern as the specification words it: a name that starts *)
(* with a letter or underscore and is made of word characters, then a      *)
(* parenthesized body of the characters body, at least one                 *)
ToolGrantWithBody(s, body) ==
  \E n \in 1..Len(s) :
     /\ s[1] \in Letters \cup {"_"}
     /\ \A i \in 1..n : s[i] \in Letters \cup Digits \cup {"_"}
     /\ Len(s) >= n + 3
     /\ s[n + 1] = "("
     /\ s[Len(s)] = ")"
     /\ \A i \in (n + 2)..(Len(s) - 1) : s[i] \in body

AnyChar == ToolAlphabet \cup Letters \cup Digits \cup {"_", " ", "-", "\r"}

ToolGrantAsStated(s) == ToolGrantWithBody(s, AnyChar)

ToolGrantOneLine(s) == ToolGrantWithBody(s, AnyChar \ {"\n", "\r"})

DirectiveOf(grant(_)) ==
  /\ candidate.directive.message = "continue"
  /\ IsSome(candidate.directive.allowedTools)
  /\ \A i \in 1..Len(Val(candidate.directive.allowedTools)) :
        grant(Val(candidate.directive.allowedTools)[i])

(* C14 as stated: a resumption payload is accepted exactly when its        *)
(* message is "continue" and every element of allowedTools is a name       *)
(* followed by a parenthesized non-empty body.                             *)
C14_AcceptedIffGrantsAsStated ==
  (candidate.kind = "directive" /\ accepted # "none") =>
     (accepted = "yes" <=> DirectiveOf(ToolGrantAsStated))

(* C14, amended: a resumption payload is accepted exactly when its message *)
(* is "continue" and every element of allowedTools is a name followed by a *)
(* parenthesized non-empty body that holds no line terminator; one invalid *)
(* grant rejects the whole directive.  The same holds of every single      *)
(* grant string.                                                           *)
C14_AcceptedIffGrantsOneLine ==
  /\ (candidate.kind = "directive" /\ accepted # "none") =>
        (accepted = "yes" <=> DirectiveOf(ToolGrantOneLine))
  /\ (candidate.kind = "tool" /\ accepted # "none") =>
        (accepted = "yes" <=> ToolGrantOneLine(candidate.tool))

C14_Witness ==
  /\ candidate.kind = "directive"
  /\ candidate.directive =
       [message |-> "continue", allowedTools |-> Some(<<GoodTool, NewlineTool>>)]
  /\ accepted = "no"

(* C15: at most one permission request is pending in a stream: a signal    *)
(* that arrives while the state is WaitingForPermission is rejected and    *)
(* leaves the pending request unchanged.                                   *)
C15_SecondSignalRejected ==
  /\ [](/\ (phase = "WaitingForPermission") <=> auth.isWaitingForPermission
        /\ auth.isWaitingForPermission <=> IsSome(auth.pendingRequest))
  /\ [][(phase = "WaitingForPermission" /\ lastEvent'.type = "signal"
           /\ events' = events + 1) =>
          /\ auth' = auth
          /\ phase' = "WaitingForPermission"
          /\ rejected' = Append(rejected, Val(lastEvent'.request))]_vars

C15_Witness ==
  /\ phase = "WaitingForPermission"
  /\ lastEvent.type = "signal"
  /\ Len(rejected) = 1
  /\ lastEvent.request = Some(rejected[1])
  /\ auth.pendingRequest # Some(rejected[1])
  /\ IsSome(auth.pendingRequest)

-----------------------------------------------------------------------------
(* C16: the side effects of a run are ordered: findById, when issued, has  *)
(* returned a record before the agent call starts, no upsert is issued     *)
(* unless the agent call has returned successfully, and on the new-session *)
(* path the create upsert has returned before the refresh upsert starts.   *)
C16_SideEffectsOrdered ==
  /\ \A i \in 1..Len(trace) :
        /\ (i < Len(trace)) => trace[i].kind # "pending"
        /\ (trace[i].op = "findById") => i = 1
        /\ (trace[i].op = "agent") =>
              \A j \in 1..(i - 1) :
                 trace[j] = [op |-> "findById", kind |-> "ok"]
        /\ (trace[i].op = "upsert") =>
              \E j \in 1..(i - 1) : trace[j] = [op |-> "agent", kind |-> "ok"]
  /\ (Len(upsertCalls) = 2) =>
        /\ NewSessionPath
        /\ UpsertKinds[1] = "ok"
        /\ upsertCalls[1].projectId = None /\ upsertCalls[1].name = None
        /\ store[upsertCalls[1].id] = Some(upsertCalls[1])

C16_Witness ==
  /\ pc = "refresh"
  /\ NewSessionPath
  /\ trace = << [op |-> "agent", kind |-> "ok"],
                [op |-> "upsert", kind |-> "ok"],
                [op |-> "upsert", kind |-> "pending"] >>

(* C17: every successful run issues the refresh upsert exactly once: a     *)
(* successful new-session run issues no findById and two upserts, the      *)
(* create and a refresh carrying the fields the create returned; a         *)
(* successful existing-session run issues one findById and one upsert.     *)
C17_RefreshExactlyOnce ==
  (pc = "done" /\ result.status = "ok") =>
     /\ trace[Len(trace)].op = "upsert"
     /\ trace[Len(trace)].kind \in {"ok", "err"}
     /\ NewSessionPath =>
           /\ findCalls = <<>>
           /\ Len(upsertCalls) = 2
           /\ UpsertKinds[1] = "ok"
           /\ upsertCalls[2] = upsertCalls[1]
     /\ ExistingSessionPath =>
           /\ Len(findCalls) = 1
           /\ Len(upsertCalls) = 1
           /\ UpsertKinds \in {<<"ok">>, <<"err">>}

C17_Witness ==
  /\ pc = "done"
  /\ result.status = "ok"
  /\ NewSessionPath
  /\ findCalls = <<>>
  /\ upsertCalls = << SessionRec("xyz", None, None, "/tmp/x"),
                      SessionRec("xyz", None, None, "/tmp/x") >>

(* C18: for an input that passes validation the errors "cwd is required    *)
(* when creating a new session" and "Session was not created or found" are *)
(* never returned: the cwd passed to the agent is always defined, and a    *)
(* session is bound whenever the refresh upsert is reached.                *)
C18_GuardsUnreachable ==
  /\ result.error \notin {"cwd is required when creating a new session",
                          "Session was not created or found"}
  /\ \A i \in 1..Len(logs) : logs[i] # "Missing cwd for new session"
  /\ \A i \in 1..Len(agentCalls) : Truthy(agentCalls[i].cwd)
  /\ (pc = "refresh") => IsSome(session)
  /\ (pc = "done" /\ NewSessionPath /\ UpsertKinds # <<>>
        /\ UpsertKinds[1] = "ok") => IsSome(session)

C18_Witness ==
  /\ pc = "refresh"
  /\ NewSessionPath
  /\ agentCalls[1].cwd = Some("/tmp/x")
  /\ UpsertKinds = <<"ok", "pending">>
  /\ session = Some(SessionRec("abc", None, None, "/tmp/x"))

(* C19: on the existing-session path a caller-supplied cwd that differs    *)
(* from the stored one is used for the agent call only: the refresh upsert *)
(* carries the record found by findById unchanged, and no step of the run  *)
(* changes the store.                                                      *)
C19_ExistingSessionUntouched ==
  /\ [](ExistingSessionPath =>
          /\ \A i \in 1..Len(agentCalls) :
                IsSome(input.cwd) => agentCalls[i].cwd = input.cwd
          /\ \A i \in 1..Len(upsertCalls) :
                Some(upsertCalls[i]) = findById(store, Val(input.sessionId)))
  /\ [][(pc \notin {"idle", "done"} /\ IsSome(input.sessionId)) =>
          store' = store]_vars

C19_Witness ==
  /\ pc = "done"
  /\ result.status = "ok"
  /\ input.sessionId = Some("s1")
  /\ input.cwd = Some("/tmp/x")
  /\ agentCalls[1].cwd = Some("/tmp/x")
  /\ UpsertKinds = <<"ok">>
  /\ upsertCalls[1] = SessionRec("s1", Some("p1"), Some("n1"), "/work")
  /\ store = InitStore

(* C20: every error path of a run logs before it ends: each error return,  *)
(* and the swallowed failure of the refresh upsert, is preceded by at      *)
(* least one console.error call of that run.                               *)
C20_EveryErrorLogged ==
  (pc = "done"
     /\ \/ result.status = "err"
        \/ Len(UpsertKinds) = RefreshIndex /\ UpsertKinds[RefreshIndex] = "err")
    => logs # <<>>

====
